---------------------------- MODULE Spec2Model ----------------------------
(***************************************************************************)
(* The arcade's two server-side games (src/app.py): HiLo (/hilo,           *)
(* /hilo_guess) and Quiz (/quiz, /quiz_guess), their Flask sessions, the   *)
(* process-wide id_list, the quiz table and the two score tables.          *)
(*                                                                         *)
(* One action per route handler; a handler runs from its first line to its *)
(* return (or to the exception that ends it) in one step.                  *)
(***************************************************************************)
EXTENDS Integers, Sequences, FiniteSets, Bags, TLC

(***************************************************************************)
(* Bounds of the exploration.                                              *)
(***************************************************************************)
\* hilo_errors / quiz_errors are followed down to -MaxDeficit
MaxDeficit == 1
\* points are followed up to 50 * MaxWins above their initial value
MaxWins == 1
\* of the ids the quiz selection can return, the DrawChoices largest are followed
DrawChoices == 1
\* rows a score table may hold
MaxRows == 1
\* with two browsers, quiz rounds are followed while id_list holds at most MaxAsked ids
MaxAsked == 2
MaxBoardRows == 3
MaxRace == 3

\* the browsers (one Flask session cookie each)
Players == {"p1", "p2"}

VARIABLES
  session,        \* Flask session of each player: key -> integer, keys may be absent
  id_list,        \* the module-level list of asked question ids (app.py:11), as a multiset
  quiz_db,        \* table quiz of quiz.db: id -> [question, answer]
  high_scores,    \* table high_scores of highscores.db, in rowid order
  quiz_scores,    \* table quiz_scores of quiz_score.db, in rowid order
  request,        \* the request handled last
  response,       \* what its handler rendered
  hilo_page,      \* the HiLo challenge last rendered to each player (browser side)
  quiz_page,      \* the Quiz challenge last rendered to each player (browser side)
  hilo_terminal,  \* history: hilo_points at the moment hilo_errors reached 0
  presented,      \* history: ids shown to each player since their last game over
  hilo_tally,     \* history: HiLo outcomes of each player since their session's
                  \* points and errors were initialised or reset
  quiz_pc         \* where each player's /quiz request in flight stands in quiz()

vars == << session, id_list, quiz_db, high_scores, quiz_scores, request, response,
           hilo_page, quiz_page, hilo_terminal, presented, hilo_tally, quiz_pc >>

(***************************************************************************)
(* Python values.                                                          *)
(***************************************************************************)
\* request.form.get(k) of a missing field, in a text-valued field
None == "<None>"

\* random.randint(a, b): every outcome
randint(a, b) == a..b

\* a dict with no key
EmptyDict == [k \in {} |-> 0]

\* d[k] = v
SetItem(d, k, v) == [x \in (DOMAIN d) \cup {k} |-> IF x = k THEN v ELSE d[x]]

\* SetDefault with a fault: the value is stored whether the key is there or not
SetDefault_Overwrites(d, k, v) == SetItem(d, k, v)

\* if k not in d: d[k] = v
SetDefault(d, k, v) == IF k \in DOMAIN d THEN d ELSE SetItem(d, k, v)

\* request.form.get(k) for a text field
FormGet(form, k) == IF k \in DOMAIN form THEN form[k] ELSE None

(***************************************************************************)
(* Text: a Python str is a sequence of one-character strings.              *)
(***************************************************************************)
UpperCase == << "A","B","C","D","E","F","G","H","I","J","K","L","M",
                "N","O","P","Q","R","S","T","U","V","W","X","Y","Z" >>
LowerCase == << "a","b","c","d","e","f","g","h","i","j","k","l","m",
                "n","o","p","q","r","s","t","u","v","w","x","y","z" >>

LowerChar(c) ==
  IF \E i \in 1..26 : UpperCase[i] = c
  THEN LowerCase[CHOOSE i \in 1..26 : UpperCase[i] = c]
  ELSE c

\* str.lower()
lower(s) == [i \in 1..Len(s) |-> LowerChar(s[i])]

\* str.strip() of blanks: no handler calls it; it is the trimming C10 speaks of
strip(s) ==
  LET keep == {i \in 1..Len(s) : s[i] # " "}
  IN  IF keep = {} THEN << >>
      ELSE LET lo == CHOOSE i \in keep : \A j \in keep : i <= j
               hi == CHOOSE i \in keep : \A j \in keep : j <= i
           IN  SubSeq(s, lo, hi)

\* str(None)
StrNone == << "N","o","n","e" >>

(***************************************************************************)
(* Initial state: the tables init_db creates are empty, no browser has a   *)
(* session yet, id_list = [].                                              *)
(***************************************************************************)
NoHiloPage == [shown |-> FALSE, number_first |-> 0, number_second |-> 0, scored |-> FALSE]
NoQuizPage == [shown |-> FALSE, id |-> 0, scored |-> FALSE]
NoTerminal == [reached |-> FALSE, points |-> 0]
NoTally    == [correct |-> 0, incorrect |-> 0]
\* no /quiz request in flight
Idle       == [at |-> "idle", points |-> 0, errors |-> 0, top_score |-> 0, id |-> 0]

Init ==
  /\ session = [p \in Players |-> EmptyDict]
  /\ id_list = EmptyBag
  /\ quiz_db = EmptyDict
  /\ high_scores = << >>
  /\ quiz_scores = << >>
  /\ request = [op |-> "none"]
  /\ response = [kind |-> "none"]
  /\ hilo_page = [p \in Players |-> NoHiloPage]
  /\ quiz_page = [p \in Players |-> NoQuizPage]
  /\ hilo_terminal = [p \in Players |-> NoTerminal]
  /\ presented = [p \in Players |-> {}]
  /\ hilo_tally = [p \in Players |-> NoTally]
  /\ quiz_pc = [p \in Players |-> Idle]

\* an unhandled exception: Flask answers 500 and the handler's remaining lines do not run
InternalServerError == [kind |-> "500"]

(***************************************************************************)
(* HiLo                                                                    *)
(***************************************************************************)
\* HiloGameOver with a fault: the game ends only below zero
HiloGameOver_BelowZero(errors) == errors < 0

\* app.py:105  if errors == 0
HiloGameOver(errors) == errors = 0

\* HiloReset with a fault: the points restart at 0
HiloReset_ToZero(s) == SetItem(SetItem(s, "hilo_points", 0), "hilo_errors", 3)

\* app.py:107-108  reset game points and errors
HiloReset(s) == SetItem(SetItem(s, "hilo_points", 100), "hilo_errors", 3)

\* HiloDraw with a fault: the first pair drawn is kept
HiloDraw_NoResample == randint(1, 10) \X randint(1, 10)

\* app.py:114-118  the pairs the resampling loop can leave
HiloDraw == {pair \in randint(1, 10) \X randint(1, 10) : pair[1] # pair[2]}

\* GET /hilo.  number_first, number_second: what the loop of lines 114-118 drew last.
hilo(p, number_first, number_second) ==
  LET s1     == SetDefault(session[p], "hilo_points", 100)
      points == s1["hilo_points"]
      s2     == SetDefault(s1, "hilo_errors", 3)
      errors == s2["hilo_errors"]
  IN  /\ request' = [op |-> "hilo", player |-> p]
      /\ IF HiloGameOver(errors)
         THEN /\ session' = [session EXCEPT ![p] = HiloReset(s2)]
              /\ response' = [kind |-> "hilo_gameover.html", points |-> s2["hilo_points"]]
              /\ hilo_page' = [hilo_page EXCEPT ![p] = NoHiloPage]
              /\ hilo_terminal' = [hilo_terminal EXCEPT ![p] = NoTerminal]
              /\ hilo_tally' = [hilo_tally EXCEPT ![p] = NoTally]
         ELSE /\ << number_first, number_second >> \in HiloDraw
              /\ session' = [session EXCEPT ![p] = s2]
              /\ response' = [kind |-> "hilo.html", points |-> points, errors |-> errors,
                              number_first |-> number_first,
                              number_second |-> number_second]
              /\ hilo_page' = [hilo_page EXCEPT ![p] =
                                 [shown |-> TRUE, number_first |-> number_first,
                                  number_second |-> number_second, scored |-> FALSE]]
              /\ UNCHANGED << hilo_terminal, hilo_tally >>
      /\ UNCHANGED << id_list, quiz_db, high_scores, quiz_scores, quiz_page, presented,
                      quiz_pc >>

\* app.py:135-140  the two branches that render 'correct'
HiloCorrect(guess, number_first, number_second) ==
  \/ guess = "Higher" /\ number_second > number_first
  \/ guess = "Lower" /\ number_second < number_first

\* HiloScore with a fault: a wrong guess costs points but no error
HiloScore_ErrorNotCounted(s, correct) ==
  IF correct
  THEN SetItem(s, "hilo_points", s["hilo_points"] + 50)
  ELSE SetItem(s, "hilo_points", s["hilo_points"] - 50)

\* app.py:137, 140, 143-144  the session update of each branch
HiloScore(s, correct) ==
  IF correct
  THEN SetItem(s, "hilo_points", s["hilo_points"] + 50)
  ELSE SetItem(SetItem(s, "hilo_points", s["hilo_points"] - 50),
               "hilo_errors", s["hilo_errors"] - 1)

\* POST /hilo_guess.  form: the posted fields; int() of a missing field raises
\* TypeError, += / -= on a missing session key raises KeyError.
hilo_guess(p, form) ==
  LET guess == FormGet(form, "guess")
      s     == session[p]
  IN  /\ request' = [op |-> "hilo_guess", player |-> p, form |-> form]
      /\ IF \/ ~ ({"number_first", "number_second", "points"} \subseteq DOMAIN form)
            \/ ~ ({"hilo_points", "hilo_errors"} \subseteq DOMAIN s)
         THEN /\ response' = InternalServerError
              /\ UNCHANGED << session, hilo_page, hilo_terminal, hilo_tally >>
         ELSE LET number_first  == form["number_first"]
                  number_second == form["number_second"]
                  correct == HiloCorrect(guess, number_first, number_second)
                  s2      == HiloScore(s, correct)
              IN  /\ session' = [session EXCEPT ![p] = s2]
                  /\ response' = [kind |-> "hilo_result.html",
                                  number_first |-> number_first,
                                  number_second |-> number_second,
                                  result |-> IF correct THEN "correct" ELSE "incorrect"]
                  /\ hilo_page' = [hilo_page EXCEPT ![p] =
                       IF /\ @.shown
                          /\ @.number_first = number_first
                          /\ @.number_second = number_second
                       THEN [@ EXCEPT !.scored = TRUE]
                       ELSE @]
                  /\ hilo_terminal' = [hilo_terminal EXCEPT ![p] =
                       IF s["hilo_errors"] # 0 /\ s2["hilo_errors"] = 0
                       THEN [reached |-> TRUE, points |-> s2["hilo_points"]]
                       ELSE @]
                  /\ hilo_tally' = [hilo_tally EXCEPT ![p] =
                       IF correct THEN [@ EXCEPT !.correct = @ + 1]
                                  ELSE [@ EXCEPT !.incorrect = @ + 1]]
      /\ UNCHANGED << id_list, quiz_db, high_scores, quiz_scores, quiz_page, presented,
                      quiz_pc >>

(***************************************************************************)
(* Score tables                                                            *)
(***************************************************************************)
\* app.py:60-64  INSERT INTO high_scores
add_score(name, score) ==
  high_scores' = Append(high_scores, [name |-> name, score |-> score])

\* app.py:244-248  INSERT INTO quiz_scores
add_score_quiz(name, score) ==
  quiz_scores' = Append(quiz_scores, [name |-> name, score |-> score])

\* POST /add_score.  score_data: the posted JSON object; a missing key raises KeyError.
add_score_route(score_data) ==
  /\ request' = [op |-> "add_score", score_data |-> score_data]
  /\ IF {"name", "score"} \subseteq DOMAIN score_data
     THEN /\ add_score(score_data["name"], score_data["score"])
          /\ response' = [kind |-> "201"]
     ELSE /\ response' = InternalServerError
          /\ UNCHANGED high_scores
  /\ UNCHANGED << session, id_list, quiz_db, quiz_scores, hilo_page, quiz_page,
                  hilo_terminal, presented, hilo_tally, quiz_pc >>

\* POST /add_score_quiz
add_score_quiz_route(score_data) ==
  /\ request' = [op |-> "add_score_quiz", score_data |-> score_data]
  /\ IF {"name", "score"} \subseteq DOMAIN score_data
     THEN /\ add_score_quiz(score_data["name"], score_data["score"])
          /\ response' = [kind |-> "201"]
     ELSE /\ response' = InternalServerError
          /\ UNCHANGED quiz_scores
  /\ UNCHANGED << session, id_list, quiz_db, high_scores, hilo_page, quiz_page,
                  hilo_terminal, presented, hilo_tally, quiz_pc >>

\* OrderByScoreDesc with a fault: rows of equal score come out newest first
OrderByScoreDesc_TiesReversed(rows) ==
  LET n == Len(rows)
      before(i, j) == \/ rows[i].score > rows[j].score
                      \/ rows[i].score = rows[j].score /\ i > j
      rank(i) == 1 + Cardinality({j \in 1..n : before(j, i)})
  IN  [k \in 1..n |-> rows[CHOOSE i \in 1..n : rank(i) = k]]

\* app.py:68, 157, 252  ORDER BY score DESC as SQLite runs it: the table is read in
\* rowid order into a sorter whose key is (score descending, order of arrival), so
\* rows of equal score come out in rowid order
OrderByScoreDesc(rows) ==
  LET n == Len(rows)
      before(i, j) == \/ rows[i].score > rows[j].score
                      \/ rows[i].score = rows[j].score /\ i < j
      rank(i) == 1 + Cardinality({j \in 1..n : before(j, i)})
  IN  [k \in 1..n |-> rows[CHOOSE i \in 1..n : rank(i) = k]]

\* app.py:68, 157, 252  LIMIT ?: the first limit rows, every row under a negative limit
Limit(rows, limit) ==
  IF limit < 0 \/ limit >= Len(rows) THEN rows ELSE SubSeq(rows, 1, limit)

\* app.py:66-70  SELECT name, score FROM high_scores ORDER BY score DESC LIMIT ?
get_high_scores(limit) == Limit(OrderByScoreDesc(high_scores), limit)

\* app.py:250-254  SELECT name, score FROM quiz_scores ORDER BY score DESC LIMIT ?
get_high_scores_quiz(limit) == Limit(OrderByScoreDesc(quiz_scores), limit)

\* a call get_high_scores(limit) and the list it returns
call_get_high_scores(limit) ==
  /\ request' = [op |-> "get_high_scores", limit |-> limit]
  /\ response' = [kind |-> "rows", rows |-> get_high_scores(limit)]
  /\ UNCHANGED << session, id_list, quiz_db, high_scores, quiz_scores, hilo_page,
                  quiz_page, hilo_terminal, presented, hilo_tally, quiz_pc >>

\* a call get_high_scores_quiz(limit) and the list it returns
call_get_high_scores_quiz(limit) ==
  /\ request' = [op |-> "get_high_scores_quiz", limit |-> limit]
  /\ response' = [kind |-> "rows", rows |-> get_high_scores_quiz(limit)]
  /\ UNCHANGED << session, id_list, quiz_db, high_scores, quiz_scores, hilo_page,
                  quiz_page, hilo_terminal, presented, hilo_tally, quiz_pc >>

\* GET /high_scores: the default limit of line 66
get_high_scores_route ==
  /\ request' = [op |-> "high_scores"]
  /\ response' = [kind |-> "200", json |-> get_high_scores(10)]
  /\ UNCHANGED << session, id_list, quiz_db, high_scores, quiz_scores, hilo_page,
                  quiz_page, hilo_terminal, presented, hilo_tally, quiz_pc >>

\* GET /high_scores_quiz: the default limit of line 250
get_high_scores_quiz_route ==
  /\ request' = [op |-> "high_scores_quiz"]
  /\ response' = [kind |-> "200", json |-> get_high_scores_quiz(10)]
  /\ UNCHANGED << session, id_list, quiz_db, high_scores, quiz_scores, hilo_page,
                  quiz_page, hilo_terminal, presented, hilo_tally, quiz_pc >>

(***************************************************************************)
(* Quiz                                                                    *)
(***************************************************************************)
\* app.py:202-217  the table after DELETE FROM quiz and the ten INSERTs: the table
\* is empty when the first row is inserted, so the rowids are 1..10 again
add_quiz_questions ==
  << [question |-> "How many times more likely are giraffes to get hit by lightning than people?",
      answer |-> << "3","0" >>],
     [question |-> "Do identical twins have the same fingerprints?",
      answer |-> << "n","o" >>],
     [question |-> "What is the tallest mountain on Earth?",
      answer |-> << "m","o","u","n","t"," ","e","v","e","r","e","s","t" >>],
     [question |-> "Do Ants have lungs?",
      answer |-> << "N","o" >>],
     [question |-> "Which type of commonly eaten fruit is radioactive?",
      answer |-> << "b","a","n","a","n","a","s" >>],
     [question |-> "According to the World Happiness Report, what country is the happiest?",
      answer |-> << "f","i","n","l","a","n","d" >>],
     [question |-> "Can hippos swim?",
      answer |-> << "n","o" >>],
     [question |-> "Can you yo-yo in space?",
      answer |-> << "y","e","s" >>],
     [question |-> "The biggest butterfly in the world has a wingspan of how many cm?",
      answer |-> << "3","1","c","m" >>],
     [question |-> "What color are Falmingoes born? (Hint: not pink!)",
      answer |-> << "w","h","i","t","e" >> ] >>

\* top_score_row with a fault: a table with no row yields a row of score 0
top_score_row_Default(rows) ==
  IF rows = << >> THEN << [name |-> "", score |-> 0] >>
                  ELSE Limit(OrderByScoreDesc(rows), 1)

\* app.py:157  SELECT * FROM quiz_scores ORDER BY score DESC LIMIT 1, fetchall()
top_score_row(rows) == Limit(OrderByScoreDesc(rows), 1)

\* app.py:158  top_score_row[0][2], the column score of the first row
top_score_of(rows) == top_score_row(rows)[1].score

\* app.py:168, 178  if errors == 0 / if len(id_list) > 9
QuizGameOver(errors, ids) == errors = 0 \/ BagCardinality(ids) > 9

\* QuizReset with a fault: the points are not reset
QuizReset_KeepsPoints(s) == SetItem(s, "quiz_errors", 3)

\* app.py:171-172, 181-182  reset game points and errors
QuizReset(s) == SetItem(SetItem(s, "quiz_points", 0), "quiz_errors", 3)

\* SelectId with a fault: the first draw is taken whether seen or not
SelectId_FirstDraw(ids) == randint(1, 10)

\* app.py:188-192  the ids the draw-again-while-seen loop can return
SelectId(ids) == {i \in randint(1, 10) : ~ BagIn(i, ids)}

\* GET /quiz.  id: what lines 188-192 drew last.
\* id_list is kept as a bag: the code reads it only through len() and `in`.
quiz(p, id) ==
  /\ request' = [op |-> "quiz", player |-> p]
  /\ IF top_score_row(quiz_scores) = << >>
     THEN \* top_score_row[0] raises IndexError before anything is written
          /\ response' = InternalServerError
          /\ UNCHANGED << session, id_list, quiz_db, quiz_page, presented >>
     ELSE LET top_score == top_score_of(quiz_scores)
              s1     == SetDefault(session[p], "quiz_points", 0)
              points == s1["quiz_points"]
              s2     == SetDefault(s1, "quiz_errors", 3)
              errors == s2["quiz_errors"]
          IN  /\ quiz_db' = add_quiz_questions
              /\ IF QuizGameOver(errors, id_list)
                 THEN /\ id_list' = EmptyBag
                      /\ session' = [session EXCEPT ![p] = QuizReset(s2)]
                      /\ response' = [kind |-> "quiz_gameover.html",
                                      points |-> s2["quiz_points"]]
                      /\ quiz_page' = [quiz_page EXCEPT ![p] = NoQuizPage]
                      /\ presented' = [presented EXCEPT ![p] = {}]
                 ELSE /\ id \in SelectId(id_list)
                      /\ id_list' = id_list (+) SetToBag({id})
                      /\ session' = [session EXCEPT ![p] = s2]
                      /\ response' =
                           IF BagCardinality(id_list') <= 10
                           THEN [kind |-> "quiz.html", id |-> id, errors |-> errors,
                                 points |-> points,
                                 quiz_question |-> quiz_db'[id].question,
                                 top_score |-> top_score]
                           ELSE InternalServerError  \* the view returns None
                      /\ quiz_page' = [quiz_page EXCEPT ![p] =
                                         [shown |-> TRUE, id |-> id, scored |-> FALSE]]
                      /\ presented' = [presented EXCEPT ![p] = @ \cup {id}]
  /\ UNCHANGED << high_scores, quiz_scores, hilo_page, hilo_terminal, hilo_tally,
                  quiz_pc >>

\* GET /quiz on a threaded server, in the three steps other requests can come
\* between.  First step, app.py:155-187: the top score, the reseeding, the session
\* defaults and the two game-over checks; a request that passes them goes on to the
\* selection with its local points, errors and top_score.
quiz_enter(p) ==
  /\ quiz_pc[p].at = "idle"
  /\ IF top_score_row(quiz_scores) = << >>
     THEN /\ request' = [op |-> "quiz", player |-> p]
          /\ response' = InternalServerError
          /\ UNCHANGED << session, id_list, quiz_db, quiz_page, presented, quiz_pc >>
     ELSE LET top_score == top_score_of(quiz_scores)
              s1     == SetDefault(session[p], "quiz_points", 0)
              points == s1["quiz_points"]
              s2     == SetDefault(s1, "quiz_errors", 3)
              errors == s2["quiz_errors"]
          IN  /\ quiz_db' = add_quiz_questions
              /\ IF QuizGameOver(errors, id_list)
                 THEN /\ id_list' = EmptyBag
                      /\ session' = [session EXCEPT ![p] = QuizReset(s2)]
                      /\ request' = [op |-> "quiz", player |-> p]
                      /\ response' = [kind |-> "quiz_gameover.html",
                                      points |-> s2["quiz_points"]]
                      /\ quiz_page' = [quiz_page EXCEPT ![p] = NoQuizPage]
                      /\ presented' = [presented EXCEPT ![p] = {}]
                      /\ UNCHANGED quiz_pc
                 ELSE /\ session' = [session EXCEPT ![p] = s2]
                      /\ quiz_pc' = [quiz_pc EXCEPT ![p] =
                                       [at |-> "selecting", points |-> points,
                                        errors |-> errors, top_score |-> top_score,
                                        id |-> 0]]
                      /\ UNCHANGED << id_list, request, response, quiz_page, presented >>
  /\ UNCHANGED << high_scores, quiz_scores, hilo_page, hilo_terminal, hilo_tally >>

\* Second step, app.py:188-192: the loop is left with an id that was not in id_list
\* when it was tested; while every id is in the list the loop goes on drawing.
quiz_draw(p, id) ==
  /\ quiz_pc[p].at = "selecting"
  /\ id \in SelectId(id_list)
  /\ quiz_pc' = [quiz_pc EXCEPT ![p] = [@ EXCEPT !.at = "drawn", !.id = id]]
  /\ UNCHANGED << session, id_list, quiz_db, high_scores, quiz_scores, request, response,
                  hilo_page, quiz_page, hilo_terminal, presented, hilo_tally >>

\* Third step, app.py:193-200: the id is appended, its question read and the page
\* rendered.
quiz_append(p) ==
  LET local == quiz_pc[p]
  IN  /\ local.at = "drawn"
      /\ id_list' = id_list (+) SetToBag({local.id})
      /\ request' = [op |-> "quiz", player |-> p]
      /\ response' =
           IF BagCardinality(id_list') <= 10
           THEN [kind |-> "quiz.html", id |-> local.id, errors |-> local.errors,
                 points |-> local.points,
                 quiz_question |-> quiz_db[local.id].question,
                 top_score |-> local.top_score]
           ELSE InternalServerError  \* the view returns None
      /\ quiz_page' = [quiz_page EXCEPT ![p] =
                         [shown |-> TRUE, id |-> local.id, scored |-> FALSE]]
      /\ presented' = [presented EXCEPT ![p] = @ \cup {local.id}]
      /\ quiz_pc' = [quiz_pc EXCEPT ![p] = Idle]
      /\ UNCHANGED << session, quiz_db, high_scores, quiz_scores, hilo_page,
                      hilo_terminal, hilo_tally >>

\* app.py:232  answer.lower() == str(quiz_answer).lower()
QuizCorrect(answer, quiz_answer) == lower(answer) = lower(quiz_answer)

\* app.py:234, 237-238  the session update of each branch
QuizScore(s, correct) ==
  IF correct
  THEN SetItem(s, "quiz_points", s["quiz_points"] + 50)
  ELSE SetItem(SetItem(s, "quiz_points", s["quiz_points"] - 50),
               "quiz_errors", s["quiz_errors"] - 1)

\* POST /quiz_guess.  int() of a missing points field raises TypeError, questions[0]
\* of an id with no row raises IndexError, += / -= on a missing key raises KeyError.
quiz_guess(p, form) ==
  LET answer == IF "answer" \in DOMAIN form THEN form["answer"] ELSE StrNone
      s      == session[p]
  IN  /\ request' = [op |-> "quiz_guess", player |-> p, form |-> form]
      /\ IF \/ "points" \notin DOMAIN form
            \/ "id" \notin DOMAIN form
            \/ form["id"] \notin DOMAIN quiz_db
            \/ ~ ({"quiz_points", "quiz_errors"} \subseteq DOMAIN s)
         THEN /\ response' = InternalServerError
              /\ UNCHANGED << session, quiz_page >>
         ELSE LET id            == form["id"]
                  quiz_question == quiz_db[id].question
                  quiz_answer   == quiz_db[id].answer
                  correct       == QuizCorrect(answer, quiz_answer)
              IN  /\ session' = [session EXCEPT ![p] = QuizScore(s, correct)]
                  /\ response' = [kind |-> "quiz_resutl.html",
                                  result |-> IF correct THEN "correct" ELSE "incorrect",
                                  quiz_answer |-> quiz_answer,
                                  points |-> form["points"],
                                  quiz_question |-> quiz_question]
                  /\ quiz_page' = [quiz_page EXCEPT ![p] =
                       IF @.shown /\ @.id = id THEN [@ EXCEPT !.scored = TRUE] ELSE @]
      /\ UNCHANGED << id_list, quiz_db, high_scores, quiz_scores, hilo_page,
                      hilo_terminal, presented, hilo_tally, quiz_pc >>

(***************************************************************************)
(* Specifications.  The requests explored: every handler takes its inputs  *)
(* from the small sets below.                                              *)
(***************************************************************************)
\* numbers the HiLo draw is followed for, and numbers a browser posts back
Sampled == {3, 7}

HiloForms ==
  [number_first : Sampled, number_second : Sampled,
   guess : {"Higher", "Lower"}, points : {0}]
  \cup {[number_first |-> 3, number_second |-> 7, guess |-> "Maybe", points |-> 0],
        [number_first |-> 3, number_second |-> 7, points |-> 0],
        [number_second |-> 7, guess |-> "Higher", points |-> 0]}

\* what a browser posts for the quiz: the page's own id or id 6 typed in by hand,
\* with an answer, without one, or without the points field
QuizForms(p) ==
  [id : {i \in {quiz_page[p].id} : quiz_page[p].shown},
   answer : { << "n","o" >>, << "f","i","n","l","a","n","d" >> }, points : {0}]
  \cup [id : {6},
        answer : { << "F","i","n","l","a","n","d" >>,
                   << " ","f","i","n","l","a","n","d"," " >> }, points : {0}]
  \cup {[id |-> 6, points |-> 0], [id |-> 6, answer |-> << "n","o" >>]}

ScoreData == {[name |-> "ann", score |-> 100]}

\* the DrawChoices largest members of S
Explored(S) == {i \in S : Cardinality({j \in S : j > i}) < DrawChoices}

Bounded ==
  /\ \A p \in Players :
       LET s == session[p]
       IN  /\ "hilo_points" \in DOMAIN s => s["hilo_points"] <= 100 + 50 * MaxWins
           /\ "hilo_errors" \in DOMAIN s => s["hilo_errors"] >= - MaxDeficit
           /\ "quiz_points" \in DOMAIN s => s["quiz_points"] <= 50 * MaxWins
           /\ "quiz_errors" \in DOMAIN s => s["quiz_errors"] >= - MaxDeficit
  /\ Len(high_scores) <= MaxRows
  /\ Len(quiz_scores) <= MaxRows

\* HiLo is between games for p: nothing shown, points and errors as a new game has them
HiloAtRest(p) ==
  /\ hilo_page[p] = NoHiloPage
  /\ hilo_terminal[p] = NoTerminal
  /\ \/ DOMAIN session[p] \cap {"hilo_points", "hilo_errors"} = {}
     \/ /\ {"hilo_points", "hilo_errors"} \subseteq DOMAIN session[p]
        /\ session[p]["hilo_points"] = 100
        /\ session[p]["hilo_errors"] = 3

\* Quiz is between games for p
QuizAtRest(p) ==
  /\ id_list = EmptyBag
  /\ quiz_page[p] = NoQuizPage
  /\ presented[p] = {}
  /\ \/ DOMAIN session[p] \cap {"quiz_points", "quiz_errors"} = {}
     \/ /\ {"quiz_points", "quiz_errors"} \subseteq DOMAIN session[p]
        /\ session[p]["quiz_points"] = 0
        /\ session[p]["quiz_errors"] = 3

HiloRequest(p) ==
  \/ \E number_first, number_second \in Sampled : hilo(p, number_first, number_second)
  \/ \E form \in HiloForms : hilo_guess(p, form) /\ Bounded'

QuizRequest(p) ==
  \/ \E id \in Explored(SelectId(id_list)) : quiz(p, id)
  \/ \E form \in QuizForms(p) : quiz_guess(p, form) /\ Bounded'

ScoreRequest ==
  \E score_data \in ScoreData : add_score_quiz_route(score_data) /\ Bounded'

\* One browser playing both games, a game of one between the games of the other.
Next ==
  \/ QuizAtRest("p1") /\ HiloRequest("p1")
  \/ HiloAtRest("p1") /\ QuizRequest("p1")
  \/ ScoreRequest

Spec == Init /\ [][Next]_vars

\* what a browser posts back from the quiz page it was shown
PageForms(p) ==
  [id : {i \in {quiz_page[p].id} : quiz_page[p].shown},
   answer : { << "n","o" >>, << "f","i","n","l","a","n","d" >> }, points : {0}]

\* Two browsers playing the quiz against the one id_list.
NextShared ==
  \/ \E p \in Players :
       \/ \E id \in Explored(SelectId(id_list)) :
            quiz(p, id) /\ BagCardinality(id_list') <= MaxAsked
       \/ \E form \in PageForms(p) : quiz_guess(p, form) /\ Bounded'
  \/ ScoreRequest

SpecShared == Init /\ [][NextShared]_vars

\* what a browser posts back from the HiLo page it was shown
HiloPageForms(p) ==
  [number_first : {n \in {hilo_page[p].number_first} : hilo_page[p].shown},
   number_second : {n \in {hilo_page[p].number_second} : hilo_page[p].shown},
   guess : {"Higher", "Lower"}, points : {0}]

\* One browser playing HiLo, every pair of numbers drawn.
NextDraw ==
  \/ \E number_first, number_second \in randint(1, 10) :
       hilo("p1", number_first, number_second)
  \/ \E form \in HiloPageForms("p1") : hilo_guess("p1", form) /\ Bounded'

SpecDraw == Init /\ [][NextDraw]_vars

\* no game over has been rendered since the last score was recorded
BeforeGameOver == response.kind # "quiz_gameover.html"

\* Two browsers asking for quiz rounds on a threaded server: the steps of their
\* requests interleave.  Followed up to a game over, the second browser asking when
\* at most MaxRace questions are left to ask.
NextThreads ==
  \/ BeforeGameOver /\ quiz_enter("p1")
  \/ BeforeGameOver /\ BagCardinality(id_list) >= 10 - MaxRace /\ quiz_enter("p2")
  \/ \E p \in Players : \E id \in Explored(SelectId(id_list)) :
       BeforeGameOver /\ quiz_draw(p, id)
  \/ \E p \in Players : BeforeGameOver /\ quiz_append(p)
  \/ ScoreRequest

SpecThreads == Init /\ [][NextThreads]_vars

\* what is posted to the score routes: names given, empty and left out, scores
\* equal, different and negative
BoardData ==
  [name : {"ann", ""}, score : {-50, 100}] \cup {[score |-> 100]}

\* The two leaderboards: records posted, lists read back.
NextBoard ==
  \/ \E score_data \in BoardData :
       /\ add_score_route(score_data)
       /\ Len(high_scores') + Len(quiz_scores') <= MaxBoardRows
  \/ \E score_data \in BoardData :
       /\ add_score_quiz_route(score_data)
       /\ Len(high_scores') + Len(quiz_scores') <= MaxBoardRows
  \/ \E limit \in 0..MaxBoardRows : call_get_high_scores(limit)
  \/ \E limit \in 0..MaxBoardRows : call_get_high_scores_quiz(limit)
  \/ get_high_scores_route
  \/ get_high_scores_quiz_route

SpecBoard == Init /\ [][NextBoard]_vars

(***************************************************************************)
(* Properties                                                              *)
(***************************************************************************)
\* the errors counters a session holds
ErrorKeys == {"hilo_errors", "quiz_errors"}

\* C1: in every reachable state each errors counter of every session (hilo_errors,
\* quiz_errors) is an integer in 0..3.
C1_ErrorsInRange ==
  \A p \in Players : \A k \in ErrorKeys \cap DOMAIN session[p] :
    session[p][k] \in 0..3

\* C2: a /hilo_guess whose guess is neither 'Higher' nor 'Lower' (or is missing) is
\* rejected: the session is as before and no correct/incorrect outcome is rendered.
C2_MalformedGuessRejected ==
  [][ (/\ request'.op = "hilo_guess"
       /\ FormGet(request'.form, "guess") \notin {"Higher", "Lower"})
      => /\ session'[request'.player] = session[request'.player]
         /\ response'.kind # "hilo_result.html" ]_vars

C4_NoRepeatWithinGame ==
  [][ (request'.op = "quiz" /\ response'.kind = "quiz.html")
      => response'.id \notin presented[request'.player] ]_vars

\* the keys of each game in a session
HiloKeys == {"hilo_points", "hilo_errors"}
QuizKeys == {"quiz_points", "quiz_errors"}

C6_OutcomeAndScoreAgree ==
  [][ /\ (/\ request'.op = "hilo_guess"
          /\ {"number_first", "number_second", "points", "guess"}
               \subseteq DOMAIN request'.form
          /\ request'.form["guess"] \in {"Higher", "Lower"}
          /\ HiloKeys \subseteq DOMAIN session[request'.player])
         => LET f      == request'.form
                before == session[request'.player]
                after  == session'[request'.player]
            IN  /\ response'.kind = "hilo_result.html"
                /\ response'.result \in {"correct", "incorrect"}
                /\ response'.result = "correct"
                     <=> \/ f["guess"] = "Higher" /\ f["number_second"] > f["number_first"]
                         \/ f["guess"] = "Lower" /\ f["number_second"] < f["number_first"]
                /\ response'.result = "correct"
                     => /\ after["hilo_points"] = before["hilo_points"] + 50
                        /\ after["hilo_errors"] = before["hilo_errors"]
                /\ response'.result = "incorrect"
                     => /\ after["hilo_points"] = before["hilo_points"] - 50
                        /\ after["hilo_errors"] = before["hilo_errors"] - 1
                /\ \A k \in QuizKeys \cap DOMAIN before : after[k] = before[k]
      /\ (/\ request'.op = "quiz_guess"
          /\ {"id", "answer", "points"} \subseteq DOMAIN request'.form
          /\ request'.form["id"] \in DOMAIN quiz_db
          /\ QuizKeys \subseteq DOMAIN session[request'.player])
         => LET before == session[request'.player]
                after  == session'[request'.player]
            IN  /\ response'.kind = "quiz_resutl.html"
                /\ response'.result \in {"correct", "incorrect"}
                /\ response'.result = "correct"
                     => /\ after["quiz_points"] = before["quiz_points"] + 50
                        /\ after["quiz_errors"] = before["quiz_errors"]
                /\ response'.result = "incorrect"
                     => /\ after["quiz_points"] = before["quiz_points"] - 50
                        /\ after["quiz_errors"] = before["quiz_errors"] - 1
                /\ \A k \in HiloKeys \cap DOMAIN before : after[k] = before[k] ]_vars

\* C6 witness: the scenario of the specification: challenge (3,7), guess Higher, on
\* points 100 and errors 3, rendered correct and left points 150, errors 3.
C6_HigherOnThreeSeven ==
  /\ request.op = "hilo_guess"
  /\ request.form = [number_first |-> 3, number_second |-> 7,
                     guess |-> "Higher", points |-> 0]
  /\ response.kind = "hilo_result.html"
  /\ response.result = "correct"
  /\ session[request.player] = [hilo_points |-> 150, hilo_errors |-> 3]

\* C7: the points a HiLo game over reports are the hilo_points the session held at
\* the moment hilo_errors reached 0.
C7_FinalScoreIsTerminalPoints ==
  [][ (request'.op = "hilo" /\ response'.kind = "hilo_gameover.html")
      => /\ hilo_terminal[request'.player].reached
         /\ response'.points = hilo_terminal[request'.player].points ]_vars

\* a game over answered to p, and p's very next request a round request of that game
GameOverThenRound(op, over, round) ==
  /\ request.op = op
  /\ response.kind = over
  /\ request'.op = op
  /\ request'.player = request.player
  /\ response'.kind = round

C9_ChallengeScoredOnce ==
  [][ /\ (/\ request'.op = "hilo_guess"
          /\ hilo_page[request'.player].shown
          /\ hilo_page[request'.player].scored
          /\ {"number_first", "number_second"} \subseteq DOMAIN request'.form
          /\ request'.form["number_first"] = hilo_page[request'.player].number_first
          /\ request'.form["number_second"] = hilo_page[request'.player].number_second)
         => session'[request'.player] = session[request'.player]
      /\ (/\ request'.op = "quiz_guess"
          /\ quiz_page[request'.player].shown
          /\ quiz_page[request'.player].scored
          /\ "id" \in DOMAIN request'.form
          /\ request'.form["id"] = quiz_page[request'.player].id)
         => session'[request'.player] = session[request'.player] ]_vars

\* C10: /quiz_guess renders correct exactly when the posted answer, trimmed of
\* leading and trailing blanks and lower-cased, is the lower-cased stored answer of
\* the posted id.
C10_AnswerTrimmedAndCaseFolded ==
  (request.op = "quiz_guess" /\ response.kind = "quiz_resutl.html")
  => LET answer == IF "answer" \in DOMAIN request.form
                   THEN request.form["answer"] ELSE StrNone
     IN  response.result = "correct"
           <=> lower(strip(answer)) = lower(quiz_db[request.form["id"]].answer)


\* result is what topN(limit) may return of table: at most limit records, by score
\* descending, each one a record of the table (where[i] is its row), records of equal
\* score in the order of their rows, and no row left out that beats a record returned
IsTopN(table, limit, result) ==
  /\ Len(result) <= limit
  /\ \A i, j \in 1..Len(result) : i < j => result[i].score >= result[j].score
  /\ \E where \in [1..Len(result) -> 1..Len(table)] :
       /\ \A i \in 1..Len(result) : table[where[i]] = result[i]
       /\ \A i, j \in 1..Len(result) :
            /\ i # j => where[i] # where[j]
            /\ (i < j /\ result[i].score = result[j].score) => where[i] < where[j]
       /\ \A m \in 1..Len(table) :
            (\A i \in 1..Len(result) : where[i] # m)
              => \A i \in 1..Len(result) : table[m].score <= result[i].score

C12_NamelessRecordRejected ==
  [][ (/\ request'.op \in {"add_score", "add_score_quiz"}
       /\ \/ "name" \notin DOMAIN request'.score_data
          \/ request'.score_data["name"] = "")
      => /\ response'.kind # "201"
         /\ UNCHANGED << high_scores, quiz_scores >>
         /\ \A i \in 1..Len(high_scores') : high_scores'[i].name # ""
         /\ \A i \in 1..Len(quiz_scores') : quiz_scores'[i].name # "" ]_vars
\* C13: every HiLo challenge produced is a pair (first, second) with both numbers in
\* 1..10 and first # second.
C13_ChallengeDistinctInRange ==
  response.kind = "hilo.html"
    => /\ response.number_first \in 1..10
       /\ response.number_second \in 1..10
       /\ response.number_first # response.number_second

\* the two ends of the range drawn
C13_TenThenOne ==
  /\ response.kind = "hilo.html"
  /\ response.number_first = 10
  /\ response.number_second = 1
\* C14: a HiLo startRound on a session that holds points and errors, with errors > 0,
\* leaves both as they are: it only produces a challenge.
C14_RoundKeepsProgress ==
  [][ (/\ request'.op = "hilo"
       /\ HiloKeys \subseteq DOMAIN session[request'.player]
       /\ session[request'.player]["hilo_errors"] > 0)
      => /\ session'[request'.player] = session[request'.player]
         /\ response'.kind = "hilo.html"
         /\ response'.points = session[request'.player]["hilo_points"]
         /\ response'.errors = session[request'.player]["hilo_errors"] ]_vars

\* a round started after two wrong guesses
C14_RoundMidGame ==
  /\ request.op = "hilo"
  /\ response.kind = "hilo.html"
  /\ response.points = 0
  /\ response.errors = 1
\* app.py:178, 189  the ids quiz() holds against player q: counted toward q's cap and
\* barred from q's next question.  The code keeps one list for everybody.
AskedIds(q) == BagToSet(id_list)

\* the quiz state of player q: the session's quiz keys and the asked ids
QuizStateOf(q) ==
  [session |-> [k \in QuizKeys \cap DOMAIN session[q] |-> session[q][k]],
   askedIds |-> AskedIds(q)]

\* C15: a quiz request of one player (a round started, an answer submitted, a game
\* finished) leaves the quiz state of every other player as it was: their points,
\* their errors and the ids barred from their next question and counted toward
\* their 10-question cap.
C15_OtherPlayersUntouched ==
  [][ request'.op \in {"quiz", "quiz_guess"}
      => \A q \in Players \ {request'.player} : QuizStateOf(q)' = QuizStateOf(q) ]_vars
\* C18: a quiz startRound while quiz_scores holds no record fails with an error before
\* it has any effect: the session's quiz points and errors, the asked-id list and
\* the question bank are as before, and no challenge is produced.
C18_EmptyBoardFailsFirst ==
  [][ (request'.op = "quiz" /\ quiz_scores = << >>)
      => /\ response' = InternalServerError
         /\ UNCHANGED << session, id_list, quiz_db, quiz_page >> ]_vars

\* the first /quiz of all, asked before any score was recorded
C18_FailedOnEmptyBoard ==
  /\ request.op = "quiz"
  /\ response = InternalServerError
  /\ quiz_scores = << >>
  /\ quiz_db = EmptyDict
\* C17: HiLo reports game over only when errors is exactly 0, that is after exactly
\* three incorrect outcomes since the points and errors were initialised or reset;
\* the final score it reports is 100 + 50 * (correct outcomes) - 150, a multiple of
\* 50 and at least -50.
C17_FinalScoreFormula ==
  [][ (request'.op = "hilo" /\ response'.kind = "hilo_gameover.html")
      => LET s == session[request'.player]
             tally == hilo_tally[request'.player]
         IN  /\ HiloKeys \subseteq DOMAIN s
             /\ s["hilo_errors"] = 0
             /\ tally.incorrect = 3
             /\ response'.points = 100 + 50 * tally.correct - 150
             /\ response'.points % 50 = 0
             /\ response'.points >= -50 ]_vars

\* a game over reported after one correct and three incorrect outcomes
C17_GameOverAtZeroPoints ==
  /\ request.op = "hilo"
  /\ response.kind = "hilo_gameover.html"
  /\ response.points = 0
\* C16: whenever a quiz startRound has passed the game-over checks and is selecting,
\* at least one id in 1..10 is absent from id_list, all through the selection, so
\* that the resampling loop ends; this under every interleaving of the quiz requests
\* in flight.
C16_SelectionHasFreeId ==
  \A p \in Players : quiz_pc[p].at = "selecting" => SelectId(id_list) # {}
====
